---------------------------- MODULE Spec2Model ----------------------------
(***************************************************************************)
(* Alarm system: the operator panel (pinGui/main.py), its dispatch worker  *)
(* (pinGui/threads.py), the remote alarm client (pinGui/instasolution.py)  *)
(* and the presence monitor (cameraSensor/main.py), which cooperate        *)
(* through the shared key-value store and the panel's command queue.       *)
(*                                                                         *)
(* Every step of a thread holds at most one access to state that another   *)
(* thread or process can touch (a field of PinGuiApp, the queue, a key of  *)
(* the store), so that the interleavings of the model are those of the     *)
(* Python threads and of the two processes.                                *)
(***************************************************************************)
EXTENDS Integers, Sequences, FiniteSets, TLC

(***************************************************************************)
(* Bounds of the model.                                                    *)
(***************************************************************************)
\* confirm handler threads (compare_pin) alive at the same time
MaxThreads == 2
\* commands waiting in alarm_queue (queue.Queue() itself is unbounded)
MaxQueue == 2
\* digit keys of the keypad the operator uses (the keypad has ten)
NumDigits == 1
\* Digit keys of the keypad scenario (the keypad has ten).
NumKeys == 2
\* longest inference of the detector, in the time unit of the quiet window
MaxRuntime == 3
\* seconds the wall clock of the monitor's host advances
MaxTime == 2
\* session ids the backend hands out, one after the other
MaxSessions == 2

(***************************************************************************)
(* Program constants.                                                      *)
(***************************************************************************)
\* do_cooldown: for i in range(1, 10)
Ticks == 9
\* pressed: len(self.pin_entry) > 3 resets the entry
MaxPinLen == 4
\* cameraSensor: timeout = settings["Alarm"]["timeout"], the quiet window
QuietWindow == 2

Digits == 1 .. NumDigits
Threads == 1 .. MaxThreads
Keys == 1 .. NumKeys
\* end_time - start_time of an inference (net.forward takes time)
Durations == 1 .. MaxRuntime

\* The three PINs whose bcrypt hashes the configuration holds.
OnOffPin == <<1>>
SilentPin == <<1, 1>>
ResizePin == <<1, 1, 1>>

\* bcrypt.verify(secret, hash): true exactly for the secret the hash was made of.
Verify(entry, pin) == entry = pin

\* A key the store does not hold (redis get returns None).
Nil == "nil"
\* redis keeps the bytes of str(value): r.set("trigger_status", 1) stores "1".
ToBytes(n) == IF n = 1 THEN "1" ELSE "0"
\* ast.literal_eval(r.get('trigger_status').decode('utf8'))
LiteralEval(b) == IF b = "1" THEN 1 ELSE 0
\* settings["Device"]["name"]
Dev == "dev"

\* save_image: frame_json = json.dumps({"timestamp": curdate, "frame": im_b64})
FrameJson(curdate, image) == [timestamp |-> curdate, frame |-> image]
\* The store holds no frame (r.get('frame') returns None).
NoFrame == [timestamp |-> -1, frame |-> Nil]
\* save_frame: frame_obj = json.loads(frame); the file is
\* frames/{frame_obj.get("timestamp")}.jpg, named here by the timestamp in it
FrameFileName(frame_json) == frame_json.timestamp

VARIABLES
    \* PinGuiApp fields
    pin_entry, alarm_status, cooldown, cooldown_counter, stop_cooldown,
    full_screen_state,
    \* confirm handler threads: position, loop index i, loaded counter, return value
    hpc, hi, hreg, hret,
    \* queue.Queue shared by the panel and the worker
    alarm_queue,
    \* the store (redis): keys trigger_status, trigger_dev, frame
    trigger_status, trigger_dev, frame,
    \* InstaThreads (the dispatch worker): position, self.alarm_status,
    \* self.alarm_status_old, the alarm_type being submitted, where run() resumes
    wpc, thread_alarm_status, alarm_status_old, alarm_type, wresume,
    \* what the current activate_alarm call has done so far (observations, read by
    \* no guard): the outcome of its login request and of its episode request (""
    \* for a request not sent), its error-level log entries, its save_frame calls;
    \* and whether the stop signal was set while the call was running
    w_login, w_episode, w_errors, w_saved, w_at_stop,
    \* the names of the files the current activate_alarm call has written
    w_file,
    \* activate_alarm's local session_id (-1 as returned by a failed
    \* get_session_id, and before the call), and the headers its episode request
    \* was sent with
    w_session, w_carried,
    \* the backend: the session id a login is answered with now
    issued,
    \* threading.Event shared by on_closing and the worker; on_closing's position
    stop_event, cpc,
    \* the files save_frame has written under frames/
    files,
    \* cameraSensor main(): position, its local trigger_status, is_last_frame,
    \* and save_image's local trigger_status
    mpc, m_status, is_last_frame, m_reread,
    \* cameraSensor: the module global runtime, detect_person's local runtime (0
    \* outside detect_person), and how long save_image's call in progress has
    \* slept in the gate; save_image's local curdate, and the second the wall
    \* clock shows (datetime.datetime.now(), formatted down to the second)
    runtime, m_runtime, m_slept, m_curdate, now,
    \* History variables (not program state; no action reads them in a guard).
    \* hsolo[h]: h's confirm was accepted for a countdown while the panel was
    \*   Disarmed and no other countdown or arming was in progress.
    \* habort[h]: the abort flag was raised while h was counting down.
    \* w_standing, w_sos: the worker's standing command when its tick began, and
    \*   whether the tick has dequeued an SOS ("no", "got", "sent" once forwarded).
    \* m_disarmed, m_flushed: status 0 was written, the store was flushed, while
    \*   the monitor slept in the gate for, or was publishing, its detection.
    \* stale_record: the store holds a device identity or frame of a detection
    \*   that was made before the last flush.
    \* hkey: the digit key of the last call of pressed (0 before the first).
    \* w_handled: a tick has read the device identity the store holds and its
    \*   activate_alarm("alarm") call has submitted the episode for it (200/201).
    \* hentry[h]: PinEntry when the ok that started handler h was pressed, while
    \*   h is at its comparisons (<<>> afterwards).
    hsolo, habort, w_standing, w_sos, m_disarmed, m_flushed, stale_record, hkey,
    w_handled, hentry

panelVars == <<pin_entry, alarm_status, cooldown, cooldown_counter, stop_cooldown,
               full_screen_state, hpc, hi, hreg, hret>>
storeVars == <<trigger_status, trigger_dev, frame>>
attemptVars == <<w_login, w_episode, w_errors, w_saved, w_at_stop, w_file, w_session,
                 w_carried>>
backendVars == <<issued>>
workerVars == <<wpc, thread_alarm_status, alarm_status_old, alarm_type, wresume, files,
                attemptVars, backendVars>>
closeVars == <<stop_event, cpc>>
gateVars == <<runtime, m_runtime, m_slept, m_curdate, now>>
monitorVars == <<mpc, m_status, is_last_frame, m_reread, gateVars>>
histVars == <<hsolo, habort, w_standing, w_sos, m_disarmed, m_flushed, stale_record,
              hkey, w_handled, hentry>>
vars == <<panelVars, alarm_queue, storeVars, workerVars, closeVars, monitorVars, histVars>>

Init ==
    /\ pin_entry = <<>>
    /\ alarm_status = FALSE
    /\ cooldown = FALSE
    /\ cooldown_counter = 0
    /\ stop_cooldown = FALSE
    /\ full_screen_state = FALSE
    /\ hpc = [h \in Threads |-> "idle"]
    /\ hi = [h \in Threads |-> 0]
    /\ hreg = [h \in Threads |-> 0]
    /\ hret = [h \in Threads |-> FALSE]
    /\ alarm_queue = <<>>
    /\ trigger_status = Nil
    /\ trigger_dev = Nil
    /\ frame = NoFrame
    /\ wpc = "wait"
    /\ thread_alarm_status = ""
    /\ alarm_status_old = ""
    /\ alarm_type = ""
    /\ wresume = ""
    /\ w_login = ""
    /\ w_episode = ""
    /\ w_errors = 0
    /\ w_saved = 0
    /\ w_at_stop = FALSE
    /\ w_file = {}
    /\ w_session = -1
    /\ w_carried = [sessionId |-> -1]
    /\ issued = 1
    /\ stop_event = FALSE
    /\ cpc = "open"
    /\ files = {}
    /\ mpc = "poll"
    /\ m_status = 0
    /\ is_last_frame = 0
    /\ m_reread = 0
    /\ runtime = 0
    /\ m_runtime = 0
    /\ m_slept = 0
    /\ m_curdate = 0
    /\ now = 0
    /\ hsolo = [h \in Threads |-> FALSE]
    /\ habort = [h \in Threads |-> FALSE]
    /\ w_standing = ""
    /\ w_sos = "no"
    /\ m_disarmed = FALSE
    /\ m_flushed = FALSE
    /\ stale_record = FALSE
    /\ hkey = 0
    /\ w_handled = FALSE
    /\ hentry = [h \in Threads |-> <<>>]


\* on_closing has run to its end: self.root.destroy() has destroyed the
\* widgets, and a widget call made by a handler thread from then on raises
\* (TclError, or RuntimeError once the main loop is gone).
TkDestroyed == cpc = "closed"

(***************************************************************************)
(* The keypad: PinGuiApp.pressed, run by the Tk main loop.                 *)
(***************************************************************************)
\* pressed with the reset test one digit late (len(self.pin_entry) > 4)
EntryAfterDigitLate(entry, key) ==
    IF Len(entry) > MaxPinLen THEN <<key>> ELSE Append(entry, key)

\* pressed, a digit key: a full entry is reset before the digit is appended
EntryAfterDigit(entry, key) ==
    IF Len(entry) > MaxPinLen - 1 THEN <<key>> ELSE Append(entry, key)

PressedDigit(key) ==
    /\ cpc = "open"
    /\ pin_entry' = EntryAfterDigit(pin_entry, key)
    /\ hkey' = key
    /\ UNCHANGED <<alarm_status, cooldown, cooldown_counter, stop_cooldown,
                   full_screen_state, hpc, hi, hreg, hret, alarm_queue, storeVars,
                   workerVars, closeVars, monitorVars, hsolo, habort, w_standing, w_sos,
                   m_disarmed, m_flushed, stale_record>>
    /\ UNCHANGED w_handled
    /\ UNCHANGED hentry

PressedDel ==
    /\ cpc = "open"
    /\ pin_entry # <<>>
    /\ pin_entry' = <<>>
    /\ UNCHANGED <<alarm_status, cooldown, cooldown_counter, stop_cooldown,
                   full_screen_state, hpc, hi, hreg, hret, alarm_queue, storeVars, workerVars, closeVars, monitorVars, histVars>>

\* The thread slot a new compare_pin thread takes: the lowest free one.
FreeSlot(h) == hpc[h] = "idle" /\ \A g \in Threads : g < h => hpc[g] # "idle"

\* pressed("ok"): threading.Thread(target=self.compare_pin).start()
PressedOk ==
    /\ cpc = "open"
    /\ \E h \in Threads :
          /\ FreeSlot(h)
          /\ hpc' = [hpc EXCEPT ![h] = "verify_on_off"]
          /\ hentry' = [hentry EXCEPT ![h] = pin_entry]
    /\ UNCHANGED <<pin_entry, alarm_status, cooldown, cooldown_counter, stop_cooldown,
                   full_screen_state, hi, hreg, hret, alarm_queue, storeVars, workerVars,
                   closeVars, monitorVars, hsolo, habort, w_standing, w_sos, m_disarmed,
                   m_flushed, stale_record, hkey, w_handled>>

(***************************************************************************)
(* A confirm handler thread: PinGuiApp.compare_pin and what it calls.      *)
(***************************************************************************)
Goto(h, to) == hpc' = [hpc EXCEPT ![h] = to]

\* if bcrypt.verify(self.pin_entry, self.on_off)
VerifyOnOff(h) ==
    /\ hpc[h] = "verify_on_off"
    /\ Goto(h, IF Verify(pin_entry, OnOffPin) THEN "check_status" ELSE "verify_silent")
    /\ UNCHANGED <<pin_entry, alarm_status, cooldown, cooldown_counter, stop_cooldown,
                   full_screen_state, hi, hreg, hret, alarm_queue, storeVars, workerVars,
                   closeVars, monitorVars, hsolo, habort, w_standing, w_sos, m_disarmed,
                   m_flushed, stale_record, hkey, w_handled>>
    /\ hentry' = [hentry EXCEPT ![h] = IF Verify(pin_entry, OnOffPin) THEN <<>> ELSE @]

\* if self.alarm_status: ... elif not self.alarm_status:
CheckStatus(h) ==
    /\ hpc[h] = "check_status"
    /\ Goto(h, IF alarm_status THEN "stop_put" ELSE "check_counter")
    /\ UNCHANGED <<pin_entry, alarm_status, cooldown, cooldown_counter, stop_cooldown,
                   full_screen_state, hi, hreg, hret, alarm_queue, storeVars, workerVars, closeVars, monitorVars, histVars>>

\* stop_redis_script with the Standard command put in place of the empty one
StopPutStandard(h) ==
    /\ hpc[h] = "stop_put"
    /\ Len(alarm_queue) < MaxQueue
    /\ alarm_queue' = Append(alarm_queue, "alarm")
    /\ Goto(h, "stop_status")
    /\ UNCHANGED <<pin_entry, alarm_status, cooldown, cooldown_counter, stop_cooldown,
                   full_screen_state, hi, hreg, hret, storeVars, workerVars, closeVars, monitorVars, histVars>>

\* stop_redis_script: self.alarm_queue.put_nowait("")
StopPut(h) ==
    /\ hpc[h] = "stop_put"
    /\ Len(alarm_queue) < MaxQueue
    /\ alarm_queue' = Append(alarm_queue, "")
    /\ Goto(h, "stop_status")
    /\ UNCHANGED <<pin_entry, alarm_status, cooldown, cooldown_counter, stop_cooldown,
                   full_screen_state, hi, hreg, hret, storeVars, workerVars, closeVars, monitorVars, histVars>>

\* stop_redis_script: self.status_bar.configure(...), then
\* self.insta_thread.change_status(0)
StopStatus(h) ==
    /\ hpc[h] = "stop_status"
    /\ ~TkDestroyed
    /\ trigger_status' = ToBytes(0)
    /\ Goto(h, "set_inactive")
    /\ m_disarmed' = (m_disarmed \/ mpc = "gate")
    /\ UNCHANGED <<pin_entry, alarm_status, cooldown, cooldown_counter, stop_cooldown,
                   full_screen_state, hi, hreg, hret, alarm_queue, trigger_dev, frame,
                   workerVars, closeVars, monitorVars, hsolo, habort, w_standing, w_sos,
                   m_flushed, stale_record>>
    /\ UNCHANGED hkey
    /\ UNCHANGED w_handled
    /\ UNCHANGED hentry

\* compare_pin: self.alarm_status = False
SetInactive(h) ==
    /\ hpc[h] = "set_inactive"
    /\ alarm_status' = FALSE
    /\ Goto(h, "reset")
    /\ UNCHANGED <<pin_entry, cooldown, cooldown_counter, stop_cooldown,
                   full_screen_state, hi, hreg, hret, alarm_queue, storeVars, workerVars, closeVars, monitorVars, histVars>>

\* Positions inside do_cooldown before the abort flag is read, inside do_cooldown,
\* inside start_redis_script (to alarm_status = True), and all of an arm attempt.
CountingPcs == {"cd_clear", "cd_load", "cd_incr", "cd_tick"}
CooldownPcs == CountingPcs \cup {"cd_reset_stop", "cd_reset_counter"}
StartPcs == {"start_flush", "start_put", "start_screen", "start_status", "set_active"}
ArmingPcs == CooldownPcs \cup {"cd_store", "cd_branch"} \cup StartPcs

\* if self.cooldown_counter <= 0: do_cooldown() else: abort
CounterAllowsCooldown(counter) == counter <= 0

CheckCounter(h) ==
    /\ hpc[h] = "check_counter"
    /\ Goto(h, IF CounterAllowsCooldown(cooldown_counter) THEN "cd_clear" ELSE "abort_flag")
    /\ hsolo' = [hsolo EXCEPT ![h] = /\ CounterAllowsCooldown(cooldown_counter)
                                     /\ ~alarm_status
                                     /\ \A g \in Threads \ {h} : hpc[g] \notin ArmingPcs]
    /\ UNCHANGED <<pin_entry, alarm_status, cooldown, cooldown_counter, stop_cooldown,
                   full_screen_state, hi, hreg, hret, alarm_queue, storeVars,
                   workerVars, closeVars, monitorVars, habort, w_standing, w_sos,
                   m_disarmed, m_flushed, stale_record>>
    /\ UNCHANGED hkey
    /\ UNCHANGED w_handled
    /\ UNCHANGED hentry

\* do_cooldown: self.pin_entry = ""
CooldownClear(h) ==
    /\ hpc[h] = "cd_clear"
    /\ pin_entry' = <<>>
    /\ Goto(h, "cd_load")
    /\ UNCHANGED <<alarm_status, cooldown, cooldown_counter, stop_cooldown,
                   full_screen_state, hi, hreg, hret, alarm_queue, storeVars, workerVars, closeVars, monitorVars, histVars>>

\* do_cooldown: self.display.configure(image=self.stars_g), then
\* self.cooldown_counter = self.cooldown_counter + 1, the load
CooldownLoad(h) ==
    /\ hpc[h] = "cd_load"
    /\ ~TkDestroyed
    /\ hreg' = [hreg EXCEPT ![h] = cooldown_counter]
    /\ Goto(h, "cd_incr")
    /\ UNCHANGED <<pin_entry, alarm_status, cooldown, cooldown_counter, stop_cooldown,
                   full_screen_state, hi, hret, alarm_queue, storeVars, workerVars, closeVars, monitorVars, histVars>>

\* do_cooldown: self.cooldown_counter = self.cooldown_counter + 1, the store
CooldownIncr(h) ==
    /\ hpc[h] = "cd_incr"
    /\ cooldown_counter' = hreg[h] + 1
    /\ hreg' = [hreg EXCEPT ![h] = 0]
    /\ hi' = [hi EXCEPT ![h] = 0]
    /\ Goto(h, "cd_tick")
    /\ UNCHANGED <<pin_entry, alarm_status, cooldown, stop_cooldown,
                   full_screen_state, hret, alarm_queue, storeVars, workerVars, closeVars, monitorVars, histVars>>

\* do_cooldown: for i in range(1, 10): self.progress.configure(...);
\* time.sleep(1), and in the last iteration self.progress.configure(dots0)
CooldownTick(h) ==
    /\ hpc[h] = "cd_tick"
    /\ hi[h] < Ticks
    /\ ~TkDestroyed
    /\ hi' = [hi EXCEPT ![h] = @ + 1]
    /\ UNCHANGED <<pin_entry, alarm_status, cooldown, cooldown_counter, stop_cooldown,
                   full_screen_state, hpc, hreg, hret, alarm_queue, storeVars, workerVars, closeVars, monitorVars, histVars>>

\* do_cooldown: what it returns for the flag it reads
CooldownResult(stop) == ~stop

\* do_cooldown: if not self.stop_cooldown (read once the loop is over)
CooldownCheck(h) ==
    /\ hpc[h] = "cd_tick"
    /\ hi[h] = Ticks
    /\ hret' = [hret EXCEPT ![h] = CooldownResult(stop_cooldown)]
    /\ Goto(h, "cd_reset_stop")
    /\ UNCHANGED <<pin_entry, alarm_status, cooldown, cooldown_counter, stop_cooldown,
                   full_screen_state, hi, hreg, alarm_queue, storeVars, workerVars, closeVars, monitorVars, histVars>>

\* do_cooldown: self.stop_cooldown = False (both branches)
CooldownResetStop(h) ==
    /\ hpc[h] = "cd_reset_stop"
    /\ stop_cooldown' = FALSE
    /\ Goto(h, "cd_reset_counter")
    /\ UNCHANGED <<pin_entry, alarm_status, cooldown, cooldown_counter,
                   full_screen_state, hi, hreg, hret, alarm_queue, storeVars, workerVars, closeVars, monitorVars, histVars>>

\* do_cooldown: self.cooldown_counter = 0 (both branches), then return
CooldownResetCounter(h) ==
    /\ hpc[h] = "cd_reset_counter"
    /\ cooldown_counter' = 0
    /\ Goto(h, "cd_store")
    /\ UNCHANGED <<pin_entry, alarm_status, cooldown, stop_cooldown,
                   full_screen_state, hi, hreg, hret, alarm_queue, storeVars, workerVars, closeVars, monitorVars, histVars>>

\* compare_pin: self.cooldown = self.do_cooldown()
CooldownStore(h) ==
    /\ hpc[h] = "cd_store"
    /\ cooldown' = hret[h]
    /\ hret' = [hret EXCEPT ![h] = FALSE]
    /\ hi' = [hi EXCEPT ![h] = 0]
    /\ Goto(h, "cd_branch")
    /\ UNCHANGED <<pin_entry, alarm_status, cooldown_counter, stop_cooldown,
                   full_screen_state, hreg, alarm_queue, storeVars, workerVars, closeVars, monitorVars, histVars>>

\* compare_pin: if self.cooldown: start_redis_script('alarm') else: not started
CooldownBranch(h) ==
    /\ hpc[h] = "cd_branch"
    /\ Goto(h, IF cooldown THEN "start_flush" ELSE "reset")
    /\ UNCHANGED <<pin_entry, alarm_status, cooldown, cooldown_counter, stop_cooldown,
                   full_screen_state, hi, hreg, hret, alarm_queue, storeVars, workerVars, closeVars, monitorVars, histVars>>

\* start_redis_script: self.insta_thread.flusher() -> Insta.clear_redis: r.flushall()
StartFlush(h) ==
    /\ hpc[h] = "start_flush"
    /\ trigger_status' = Nil
    /\ trigger_dev' = Nil
    /\ frame' = NoFrame
    /\ Goto(h, "start_put")
    /\ m_flushed' = (m_flushed \/ mpc \in {"gate", "reread", "write_dev", "write_frame"})
    /\ stale_record' = FALSE
    /\ w_handled' = FALSE
    /\ UNCHANGED <<pin_entry, alarm_status, cooldown, cooldown_counter, stop_cooldown,
                   full_screen_state, hi, hreg, hret, alarm_queue,
                   workerVars, closeVars, monitorVars, hsolo, habort, w_standing, w_sos,
                   m_disarmed>>
    /\ UNCHANGED hkey
    /\ UNCHANGED hentry

\* start_redis_script: self.alarm_queue.put_nowait(alarm_kind), alarm_kind = 'alarm'
StartPut(h) ==
    /\ hpc[h] = "start_put"
    /\ Len(alarm_queue) < MaxQueue
    /\ alarm_queue' = Append(alarm_queue, "alarm")
    /\ Goto(h, "start_screen")
    /\ UNCHANGED <<pin_entry, alarm_status, cooldown, cooldown_counter, stop_cooldown,
                   full_screen_state, hi, hreg, hret, storeVars, workerVars, closeVars, monitorVars, histVars>>

\* start_redis_script: if self.full_screen_state: self.toggle_full_screen(),
\* which calls self.root.attributes
StartScreen(h) ==
    /\ hpc[h] = "start_screen"
    /\ full_screen_state => ~TkDestroyed
    /\ full_screen_state' = FALSE
    /\ Goto(h, "start_status")
    /\ UNCHANGED <<pin_entry, alarm_status, cooldown, cooldown_counter, stop_cooldown,
                   hi, hreg, hret, alarm_queue, storeVars, workerVars, closeVars, monitorVars, histVars>>

\* start_redis_script: self.insta_thread.change_status(1)
StartStatus(h) ==
    /\ hpc[h] = "start_status"
    /\ trigger_status' = ToBytes(1)
    /\ Goto(h, "set_active")
    /\ UNCHANGED <<pin_entry, alarm_status, cooldown, cooldown_counter, stop_cooldown,
                   full_screen_state, hi, hreg, hret, alarm_queue, trigger_dev, frame, workerVars, closeVars, monitorVars, histVars>>

\* compare_pin: self.status_bar.configure(image=self.camera_on), then
\* self.alarm_status = True
SetActive(h) ==
    /\ hpc[h] = "set_active"
    /\ ~TkDestroyed
    /\ alarm_status' = TRUE
    /\ Goto(h, "reset")
    /\ UNCHANGED <<pin_entry, cooldown, cooldown_counter, stop_cooldown,
                   full_screen_state, hi, hreg, hret, alarm_queue, storeVars, workerVars, closeVars, monitorVars, histVars>>

\* compare_pin, a cooldown is counted as running: self.stop_cooldown = True
AbortFlag(h) ==
    /\ hpc[h] = "abort_flag"
    /\ stop_cooldown' = TRUE
    /\ Goto(h, "abort_counter")
    /\ habort' = [g \in Threads |-> habort[g] \/ hpc[g] \in CountingPcs]
    /\ UNCHANGED <<pin_entry, alarm_status, cooldown, cooldown_counter,
                   full_screen_state, hi, hreg, hret, alarm_queue, storeVars,
                   workerVars, closeVars, monitorVars, hsolo, w_standing, w_sos,
                   m_disarmed, m_flushed, stale_record>>
    /\ UNCHANGED hkey
    /\ UNCHANGED w_handled
    /\ UNCHANGED hentry

\* compare_pin, a cooldown is counted as running: self.cooldown_counter = 0
AbortCounter(h) ==
    /\ hpc[h] = "abort_counter"
    /\ cooldown_counter' = 0
    /\ Goto(h, "reset")
    /\ UNCHANGED <<pin_entry, alarm_status, cooldown, stop_cooldown,
                   full_screen_state, hi, hreg, hret, alarm_queue, storeVars, workerVars, closeVars, monitorVars, histVars>>

\* elif bcrypt.verify(self.pin_entry, self.silent)
VerifySilent(h) ==
    /\ hpc[h] = "verify_silent"
    /\ Goto(h, IF Verify(pin_entry, SilentPin) THEN "sos_put" ELSE "verify_resize")
    /\ UNCHANGED <<pin_entry, alarm_status, cooldown, cooldown_counter, stop_cooldown,
                   full_screen_state, hi, hreg, hret, alarm_queue, storeVars, workerVars,
                   closeVars, monitorVars, hsolo, habort, w_standing, w_sos, m_disarmed,
                   m_flushed, stale_record, hkey, w_handled>>
    /\ hentry' = [hentry EXCEPT ![h] = IF Verify(pin_entry, SilentPin) THEN <<>> ELSE @]

\* start_sos followed by change_status(1), as start_redis_script ends
SosPutAndStatus(h) ==
    /\ hpc[h] = "sos_put"
    /\ Len(alarm_queue) < MaxQueue
    /\ alarm_queue' = Append(alarm_queue, "sos")
    /\ trigger_status' = ToBytes(1)
    /\ Goto(h, "sos_shown")
    /\ UNCHANGED <<pin_entry, alarm_status, cooldown, cooldown_counter, stop_cooldown,
                   full_screen_state, hi, hreg, hret, trigger_dev, frame, workerVars,
                   closeVars, monitorVars, histVars>>

\* start_sos: self.alarm_queue.put_nowait("sos")
SosPut(h) ==
    /\ hpc[h] = "sos_put"
    /\ Len(alarm_queue) < MaxQueue
    /\ alarm_queue' = Append(alarm_queue, "sos")
    /\ Goto(h, "sos_shown")
    /\ UNCHANGED <<pin_entry, alarm_status, cooldown, cooldown_counter, stop_cooldown,
                   full_screen_state, hi, hreg, hret, storeVars, workerVars, closeVars, monitorVars, histVars>>

\* compare_pin, SOS: the progress indicator shows dots5, dots9, dots0 over 1.5 s
SosShown(h) ==
    /\ hpc[h] = "sos_shown"
    /\ ~TkDestroyed
    /\ Goto(h, "reset")
    /\ UNCHANGED <<pin_entry, alarm_status, cooldown, cooldown_counter, stop_cooldown,
                   full_screen_state, hi, hreg, hret, alarm_queue, storeVars, workerVars, closeVars, monitorVars, histVars>>

\* elif bcrypt.verify(self.pin_entry, self.resize) ... else: wrong pin code
VerifyResize(h) ==
    /\ hpc[h] = "verify_resize"
    /\ Goto(h, IF Verify(pin_entry, ResizePin) THEN "resize" ELSE "reset")
    /\ UNCHANGED <<pin_entry, alarm_status, cooldown, cooldown_counter, stop_cooldown,
                   full_screen_state, hi, hreg, hret, alarm_queue, storeVars, workerVars,
                   closeVars, monitorVars, hsolo, habort, w_standing, w_sos, m_disarmed,
                   m_flushed, stale_record, hkey, w_handled>>
    /\ hentry' = [hentry EXCEPT ![h] = <<>>]

\* change_screen_state: toggle_full_screen sets False, quit_full_screen sets True
ChangeScreenState(h) ==
    /\ hpc[h] = "resize"
    /\ ~TkDestroyed
    /\ full_screen_state' = ~full_screen_state
    /\ Goto(h, "reset")
    /\ UNCHANGED <<pin_entry, alarm_status, cooldown, cooldown_counter, stop_cooldown,
                   hi, hreg, hret, alarm_queue, storeVars, workerVars, closeVars, monitorVars, histVars>>

\* Positions of compare_pin at a bcrypt.verify call.
VerifyPcs == {"verify_on_off", "verify_silent", "verify_resize"}

\* bcrypt.verify raises (a malformed hash in the settings, no bcrypt backend):
\* compare_pin has no try, the exception ends the thread where it is
VerifyRaises(h) ==
    /\ hpc[h] \in VerifyPcs
    /\ Goto(h, "idle")
    /\ hentry' = [hentry EXCEPT ![h] = <<>>]
    /\ UNCHANGED <<pin_entry, alarm_status, cooldown, cooldown_counter, stop_cooldown,
                   full_screen_state, hi, hreg, hret, alarm_queue, storeVars, workerVars,
                   closeVars, monitorVars, hsolo, habort, w_standing, w_sos, m_disarmed,
                   m_flushed, stale_record, hkey, w_handled>>

\* Positions of a handler whose next statement is a widget call: status_bar,
\* display, progress .configure, root.attributes.
TkPcs == {"stop_status", "cd_load", "cd_tick", "start_screen", "set_active",
          "sos_shown", "resize", "reset"}

\* A widget call after root.destroy() raises: compare_pin has no try, the
\* exception ends the thread where it is. do_cooldown's loop makes its last
\* widget call in its last iteration; start_redis_script makes one only in
\* full screen mode.
TkRaises(h) ==
    /\ hpc[h] \in TkPcs
    /\ TkDestroyed
    /\ hpc[h] = "cd_tick" => hi[h] < Ticks
    /\ hpc[h] = "start_screen" => full_screen_state
    /\ Goto(h, "idle")
    /\ hi' = [hi EXCEPT ![h] = 0]
    /\ hret' = [hret EXCEPT ![h] = FALSE]
    /\ hsolo' = [hsolo EXCEPT ![h] = FALSE]
    /\ habort' = [habort EXCEPT ![h] = FALSE]
    /\ UNCHANGED <<pin_entry, alarm_status, cooldown, cooldown_counter, stop_cooldown,
                   full_screen_state, hreg, alarm_queue, storeVars, workerVars,
                   closeVars, monitorVars, w_standing, w_sos, m_disarmed, m_flushed,
                   stale_record, hkey, w_handled, hentry>>

\* compare_pin, its end in every outcome: self.display.configure(stars_0), then
\* self.pin_entry = ""
ResetEntry(h) ==
    /\ hpc[h] = "reset"
    /\ ~TkDestroyed
    /\ pin_entry' = <<>>
    /\ Goto(h, "idle")
    /\ hsolo' = [hsolo EXCEPT ![h] = FALSE]
    /\ habort' = [habort EXCEPT ![h] = FALSE]
    /\ UNCHANGED hentry
    /\ UNCHANGED <<alarm_status, cooldown, cooldown_counter, stop_cooldown,
                   full_screen_state, hi, hreg, hret, alarm_queue, storeVars,
                   workerVars, closeVars, monitorVars, w_standing, w_sos,
                   m_disarmed, m_flushed, stale_record>>
    /\ UNCHANGED hkey
    /\ UNCHANGED w_handled

\* compare_pin on the arm/disarm PIN without a countdown already counted, and
\* the end every outcome shares
HandlerArmDisarm(h) ==
    \/ VerifyOnOff(h)
    \/ CheckStatus(h)
    \/ StopPut(h)
    \/ StopStatus(h)
    \/ SetInactive(h)
    \/ CheckCounter(h)
    \/ CooldownClear(h)
    \/ CooldownLoad(h)
    \/ CooldownIncr(h)
    \/ CooldownTick(h)
    \/ CooldownCheck(h)
    \/ CooldownResetStop(h)
    \/ CooldownResetCounter(h)
    \/ CooldownStore(h)
    \/ CooldownBranch(h)
    \/ StartFlush(h)
    \/ StartPut(h)
    \/ StartScreen(h)
    \/ StartStatus(h)
    \/ SetActive(h)
    \/ VerifySilent(h)
    \/ VerifyResize(h)
    \/ ResetEntry(h)

\* compare_pin on the arm/disarm PIN while a countdown is counted
HandlerAbort(h) ==
    \/ AbortFlag(h)
    \/ AbortCounter(h)

\* compare_pin on the SOS PIN
HandlerSos(h) ==
    \/ SosPut(h)
    \/ SosShown(h)

Handler(h) ==
    \/ HandlerArmDisarm(h)
    \/ HandlerAbort(h)
    \/ HandlerSos(h)
    \/ ChangeScreenState(h)

NextPanel ==
    \/ \E key \in Digits : PressedDigit(key)
    \/ PressedDel
    \/ PressedOk
    \/ \E h \in Threads : Handler(h)

\* The panel alone: the operator presses any key at any time.
SpecPanel == Init /\ [][NextPanel]_vars


(***************************************************************************)
(* The dispatch worker: InstaThreads.run and Insta.check_alarm_queue.      *)
(***************************************************************************)
\* No activate_alarm call has been made in this tick.
NoAttempt ==
    /\ w_login' = ""
    /\ w_episode' = ""
    /\ w_errors' = 0
    /\ w_saved' = 0
    /\ w_file' = {}
    /\ w_session' = -1
    /\ w_carried' = [sessionId |-> -1]

\* while not self.stop_event.wait(1)
WorkerWait ==
    /\ wpc = "wait"
    /\ wpc' = IF stop_event THEN "stopped" ELSE "check_empty"
    /\ w_standing' = thread_alarm_status
    /\ w_sos' = "no"
    /\ NoAttempt
    /\ UNCHANGED w_at_stop
    /\ UNCHANGED <<panelVars, alarm_queue, storeVars, thread_alarm_status,
                   alarm_status_old, alarm_type, wresume, files, closeVars, monitorVars,
                   hsolo, habort, m_disarmed, m_flushed, stale_record>>
    /\ UNCHANGED hkey
    /\ UNCHANGED w_handled
    /\ UNCHANGED hentry
    /\ UNCHANGED issued

\* run with the whole loop body under the test of the queue
AfterEmptyTestSkipsIdle(q) == IF q = <<>> THEN "wait" ELSE "get"

\* run: the get under `if not self.alarm_queue.empty()`, or straight on to the
\* loop's last line
AfterEmptyTest(q) == IF q = <<>> THEN "final" ELSE "get"

\* if not self.alarm_queue.empty()
WorkerCheckEmpty ==
    /\ wpc = "check_empty"
    /\ wpc' = AfterEmptyTest(alarm_queue)
    /\ UNCHANGED <<panelVars, alarm_queue, storeVars, thread_alarm_status,
                   alarm_status_old, alarm_type, wresume, files, closeVars, monitorVars, histVars>>
    /\ UNCHANGED attemptVars
    /\ UNCHANGED issued

\* run without the assignment self.alarm_status_old = self.alarm_status
StatusAfterGetNoSave(status, current, old) ==
    IF status = "sos" THEN <<"sos", old>> ELSE <<status, old>>

\* run: what a dequeued status makes of (self.alarm_status, self.alarm_status_old)
StatusAfterGet(status, current, old) ==
    IF status = "sos" THEN <<"sos", current>> ELSE <<status, old>>

\* A queue that hands out its newest item (queue.LifoQueue).
QueueGetNewest(q) == <<q[Len(q)], SubSeq(q, 1, Len(q) - 1)>>

\* queue.Queue.get on a queue that is not empty: the item returned and the queue
\* that is left
QueueGet(q) == <<Head(q), Tail(q)>>

\* status = self.alarm_queue.get(timeout=1) and the assignments that follow it
WorkerGet ==
    /\ wpc = "get"
    /\ alarm_queue # <<>>
    /\ LET status == QueueGet(alarm_queue)[1]
           after == StatusAfterGet(status, thread_alarm_status, alarm_status_old)
       IN  /\ thread_alarm_status' = after[1]
           /\ alarm_status_old' = after[2]
           /\ wpc' = IF status = "sos" THEN "sos_check" ELSE "final"
    /\ alarm_queue' = QueueGet(alarm_queue)[2]
    /\ w_sos' = IF QueueGet(alarm_queue)[1] = "sos" THEN "got" ELSE w_sos
    /\ UNCHANGED <<panelVars, storeVars, alarm_type, wresume, files, closeVars,
                   monitorVars, hsolo, habort, w_standing, m_disarmed, m_flushed,
                   stale_record>>
    /\ UNCHANGED hkey
    /\ UNCHANGED attemptVars
    /\ UNCHANGED w_handled
    /\ UNCHANGED hentry
    /\ UNCHANGED issued

\* check_alarm_queue: the alarm it activates for a status and self.sensor_activator
\* ("" for none)
AlarmToActivate(status, activator) ==
    IF status = "alarm" /\ activator # Nil THEN "alarm"
    ELSE IF status = "sos" THEN "sos"
    ELSE ""

\* Insta.check_alarm_queue(self.alarm_status): self.r.get('trigger_dev') and the
\* decision; run() goes on at `resume` once it returns
CheckAlarmQueue(at, resume) ==
    /\ wpc = at
    /\ LET kind == AlarmToActivate(thread_alarm_status, trigger_dev)
       IN  IF kind = ""
           THEN /\ wpc' = resume
                /\ UNCHANGED <<alarm_type, wresume, w_login, w_episode, w_errors, w_saved,
                               w_file, w_session, w_carried>>
           ELSE /\ wpc' = "login"
                /\ alarm_type' = kind
                /\ wresume' = resume
                /\ NoAttempt
    /\ UNCHANGED w_at_stop
    /\ UNCHANGED w_handled
    /\ w_sos' = IF w_sos = "got" /\ AlarmToActivate(thread_alarm_status, trigger_dev) = "sos"
                THEN "sent" ELSE w_sos
    /\ UNCHANGED <<panelVars, alarm_queue, storeVars, thread_alarm_status,
                   alarm_status_old, files, closeVars, monitorVars, hsolo, habort,
                   w_standing, m_disarmed, m_flushed, stale_record>>
    /\ UNCHANGED hkey
    /\ UNCHANGED hentry
    /\ UNCHANGED issued

\* run, status == "sos": self.redisToIs.check_alarm_queue(self.alarm_status)
WorkerSosCheck == CheckAlarmQueue("sos_check", "sos_restore")

\* run: self.alarm_status = self.alarm_status_old
WorkerSosRestore ==
    /\ wpc = "sos_restore"
    /\ thread_alarm_status' = alarm_status_old
    /\ wpc' = "final"
    /\ UNCHANGED <<panelVars, alarm_queue, storeVars, alarm_status_old, alarm_type,
                   wresume, files, closeVars, monitorVars, histVars>>
    /\ UNCHANGED attemptVars
    /\ UNCHANGED issued

\* run, last line of the loop: self.redisToIs.check_alarm_queue(self.alarm_status)
WorkerFinalCheck == CheckAlarmQueue("final", "wait")

(***************************************************************************)
(* The remote alarm client: Insta.activate_alarm, run by the worker.       *)
(***************************************************************************)
\* Positions inside activate_alarm.
ClientPcs == {"login", "episode", "save_frame"}

\* get_session_id: the request raises (Timeout, RequestException, another
\* exception), the status is not 200, json.loads or the sessionId test raises on
\* the body, the body holds no sessionId, the body holds no user id (KeyError),
\* or session and user id are returned
LoginOutcomes == {"error", "not_200", "bad_body", "no_session", "no_user", "ok"}
\* requests.request for the episode: Timeout, RequestException, another exception
\* (response stays None), 200/201, 400, another status
EpisodeOutcomes == {"timeout", "request_error", "other_error", "ok", "conflict", "rejected"}

\* activate_alarm without the test session_id == -1 on a status that is not 200
AfterLoginIgnoresStatus(outcome) ==
    CASE outcome \in {"ok", "not_200"} -> "episode"
      [] outcome \in {"bad_body", "no_user"} -> "crashed"
      [] OTHER -> "return"

\* activate_alarm after get_session_id: the episode request, the return on
\* session_id == -1, or the exception get_session_id did not catch
AfterLogin(outcome) ==
    CASE outcome = "ok" -> "episode"
      [] outcome \in {"bad_body", "no_user"} -> "crashed"
      [] OTHER -> "return"

\* get_session_id: response_value['sessionId'] of the answer, or -1
SessionOf(outcome, answered) == IF outcome = "ok" THEN answered ELSE -1

\* activate_alarm with the session id of the first login kept for every request
EpisodeHeadersFirstSession(session_id) == [sessionId |-> 1]

\* activate_alarm: headers = {'sessionId': session_id}
EpisodeHeaders(session_id) == [sessionId |-> session_id]

\* logger.error calls of get_session_id and of activate_alarm's session test
LoginErrors(outcome) ==
    IF outcome \in {"error", "not_200", "no_session"} THEN 3 ELSE 0

\* activate_alarm with status 400 counted as a success status
AfterEpisodeSavesOnConflict(outcome) ==
    CASE outcome \in {"ok", "conflict"} -> "save_frame"
      [] outcome = "other_error" -> "crashed"
      [] OTHER -> "return"

\* activate_alarm with save_frame after every response, whatever its status
AfterEpisodeSavesAlways(outcome) ==
    CASE outcome \in {"ok", "conflict", "rejected"} -> "save_frame"
      [] outcome = "other_error" -> "crashed"
      [] OTHER -> "return"

\* activate_alarm after the episode request: save_frame on 200/201, return on a
\* caught exception or another status, AttributeError on response = None
AfterEpisode(outcome) ==
    CASE outcome = "ok" -> "save_frame"
      [] outcome = "other_error" -> "crashed"
      [] OTHER -> "return"

\* logger.error calls of activate_alarm's episode request
EpisodeErrors(outcome) ==
    IF outcome \in {"timeout", "request_error", "other_error"} THEN 1 ELSE 0

\* activate_alarm goes to `to`: on, back to run(), or out with the exception
ActivateGoto(to) ==
    IF to = "return"
    THEN /\ wpc' = wresume
         /\ alarm_type' = ""
         /\ wresume' = ""
         /\ w_at_stop' = FALSE
    ELSE /\ wpc' = to
         /\ UNCHANGED <<alarm_type, wresume, w_at_stop>>

\* activate_alarm: session_id, user_id = self.get_session_id()
ClientLogin ==
    /\ wpc = "login"
    /\ \E outcome \in LoginOutcomes :
          /\ w_login' = outcome
          /\ w_errors' = w_errors + LoginErrors(outcome)
          /\ w_session' = SessionOf(outcome, issued)
          /\ ActivateGoto(AfterLogin(outcome))
    /\ UNCHANGED <<panelVars, alarm_queue, storeVars, thread_alarm_status,
                   alarm_status_old, files, w_episode, w_saved, w_file, w_carried,
                   issued, closeVars, monitorVars, histVars>>

\* activate_alarm: the episode request and the reading of response.status_code
ClientEpisode ==
    /\ wpc = "episode"
    /\ \E outcome \in EpisodeOutcomes :
          /\ w_episode' = outcome
          /\ w_errors' = w_errors + EpisodeErrors(outcome)
          /\ ActivateGoto(AfterEpisode(outcome))
          /\ w_handled' = (w_handled \/ (alarm_type = "alarm" /\ outcome = "ok"))
    /\ w_carried' = EpisodeHeaders(w_session)
    /\ UNCHANGED <<panelVars, alarm_queue, storeVars, thread_alarm_status,
                   alarm_status_old, files, w_login, w_saved, w_file, w_session, issued,
                   closeVars,
                   monitorVars, hsolo, habort, w_standing, w_sos, m_disarmed, m_flushed,
                   stale_record, hkey>>
    /\ UNCHANGED hentry

\* save_frame: frame = self.r.get('frame'); written to frames/ when present
ClientSaveFrame ==
    /\ wpc = "save_frame"
    /\ files' = IF frame # NoFrame THEN files \cup {FrameFileName(frame)} ELSE files
    /\ w_file' = IF frame # NoFrame THEN {FrameFileName(frame)} ELSE {}
    /\ w_saved' = w_saved + 1
    /\ ActivateGoto("return")
    /\ UNCHANGED <<panelVars, alarm_queue, storeVars, thread_alarm_status,
                   alarm_status_old, w_login, w_episode, w_errors, w_session, w_carried,
                   issued, closeVars, monitorVars, histVars>>

\* The backend: the session it has handed out expires, the next login is
\* answered with another session id.
BackendNewSession ==
    /\ issued < MaxSessions
    /\ issued' = issued + 1
    /\ UNCHANGED <<panelVars, alarm_queue, storeVars, wpc, thread_alarm_status,
                   alarm_status_old, alarm_type, wresume, files, attemptVars, closeVars,
                   monitorVars, histVars>>

NextWorker ==
    \/ WorkerWait
    \/ WorkerCheckEmpty
    \/ WorkerGet
    \/ WorkerSosCheck
    \/ WorkerSosRestore
    \/ WorkerFinalCheck
    \/ ClientLogin
    \/ ClientEpisode
    \/ ClientSaveFrame

(***************************************************************************)
(* Closing the window: PinGuiApp.on_closing, run by the Tk main loop.      *)
(***************************************************************************)
\* stop_redis_script: self.alarm_queue.put_nowait("")
ClosePut ==
    /\ cpc = "open"
    /\ Len(alarm_queue) < MaxQueue
    /\ alarm_queue' = Append(alarm_queue, "")
    /\ cpc' = "close_status"
    /\ UNCHANGED <<panelVars, storeVars, workerVars, stop_event, monitorVars, histVars>>

\* stop_redis_script: self.insta_thread.change_status(0)
CloseStatus ==
    /\ cpc = "close_status"
    /\ trigger_status' = ToBytes(0)
    /\ cpc' = "close_event"
    /\ m_disarmed' = (m_disarmed \/ mpc = "gate")
    /\ UNCHANGED <<panelVars, alarm_queue, trigger_dev, frame, workerVars, stop_event,
                   monitorVars, hsolo, habort, w_standing, w_sos, m_flushed,
                   stale_record>>
    /\ UNCHANGED hkey
    /\ UNCHANGED w_handled
    /\ UNCHANGED hentry

\* self.thread_stop_event.set()
CloseEvent ==
    /\ cpc = "close_event"
    /\ stop_event' = TRUE
    /\ cpc' = "close_join"
    /\ w_at_stop' = (wpc \in ClientPcs)
    /\ UNCHANGED <<panelVars, alarm_queue, storeVars, wpc, thread_alarm_status,
                   alarm_status_old, alarm_type, wresume, files, w_login, w_episode,
                   w_errors, w_saved, w_file, w_session, w_carried, issued, monitorVars,
                   histVars>>

\* self.insta_thread.join(), then self.root.destroy()
CloseJoin ==
    /\ cpc = "close_join"
    /\ wpc \in {"stopped", "crashed"}
    /\ cpc' = "closed"
    /\ UNCHANGED <<panelVars, alarm_queue, storeVars, workerVars, stop_event, monitorVars, histVars>>

NextClose ==
    \/ ClosePut
    \/ CloseStatus
    \/ CloseEvent
    \/ CloseJoin

(***************************************************************************)
(* The presence monitor: cameraSensor main(), detect_person, save_image.   *)
(***************************************************************************)
\* main: if is_last_frame >= 5
FrameSkip == 5

\* main without is_last_frame = 0 before detect_person
AfterPollNoReset(status, skipped) ==
    IF status = 1
    THEN IF skipped >= FrameSkip THEN <<"infer", skipped>> ELSE <<"poll", skipped + 1>>
    ELSE <<"poll", skipped>>

\* main: what follows the status poll, for the status the loop now holds:
\* the next position and is_last_frame
AfterPoll(status, skipped) ==
    IF status = 1
    THEN IF skipped >= FrameSkip THEN <<"infer", 0>> ELSE <<"poll", skipped + 1>>
    ELSE <<"poll", skipped>>

\* main: if r.exists('trigger_status')
MonitorPoll ==
    /\ mpc = "poll"
    /\ IF trigger_status # Nil
       THEN /\ mpc' = "poll_get"
            /\ UNCHANGED is_last_frame
       ELSE /\ mpc' = AfterPoll(m_status, is_last_frame)[1]
            /\ is_last_frame' = AfterPoll(m_status, is_last_frame)[2]
    /\ UNCHANGED <<panelVars, alarm_queue, storeVars, workerVars, closeVars,
                   m_status, m_reread, histVars>>
    /\ UNCHANGED gateVars

\* main: trigger_status = ast.literal_eval(r.get('trigger_status').decode('utf8'));
\* a key flushed since exists() makes get return None, and None.decode raises
MonitorPollGet ==
    /\ mpc = "poll_get"
    /\ IF trigger_status = Nil
       THEN /\ mpc' = "crashed"
            /\ UNCHANGED <<m_status, is_last_frame>>
       ELSE /\ m_status' = LiteralEval(trigger_status)
            /\ mpc' = AfterPoll(LiteralEval(trigger_status), is_last_frame)[1]
            /\ is_last_frame' = AfterPoll(LiteralEval(trigger_status), is_last_frame)[2]
    /\ UNCHANGED <<panelVars, alarm_queue, storeVars, workerVars, closeVars, m_reread, histVars>>
    /\ UNCHANGED gateVars

\* detect_person: start_time, outputs = net.forward(ln), end_time;
\* runtime = end_time - start_time assigns a local of detect_person (the function
\* has no global statement), the module global keeps its value
MonitorInfer ==
    /\ mpc = "infer"
    /\ \E d \in Durations : m_runtime' = d
    /\ mpc' = "detect"
    /\ UNCHANGED <<runtime, m_slept, m_curdate, now>>
    /\ UNCHANGED <<panelVars, alarm_queue, storeVars, workerVars, closeVars,
                   m_status, is_last_frame, m_reread, histVars>>

\* detect_person: the detector finds one more person box (save_image is called
\* for it) or no further one (back to main's loop)
MonitorDetect ==
    /\ mpc = "detect"
    /\ \E person \in BOOLEAN :
          /\ mpc' = IF person THEN "gate" ELSE "poll"
          /\ m_flushed' = (person /\ m_flushed)
          /\ m_runtime' = IF person THEN m_runtime ELSE 0
    /\ UNCHANGED <<runtime, m_slept, m_curdate, now>>
    /\ m_disarmed' = FALSE
    /\ UNCHANGED <<panelVars, alarm_queue, storeVars, workerVars, closeVars,
                   m_status, is_last_frame, m_reread, hsolo, habort, w_standing, w_sos,
                   stale_record>>
    /\ UNCHANGED hkey
    /\ UNCHANGED w_handled
    /\ UNCHANGED hentry

\* save_image: if (timeout - runtime) >= 0: time.sleep(timeout - runtime); the
\* time slept, for the runtime save_image reads
GateSleep(window, measured) == IF window - measured >= 0 THEN window - measured ELSE 0

\* save_image: the gate (runtime is the module global here), then the image is
\* encoded and stamped: curdate = datetime.datetime.now().strftime(...)
MonitorGate ==
    /\ mpc = "gate"
    /\ mpc' = "reread"
    /\ m_slept' = GateSleep(QuietWindow, runtime)
    /\ m_curdate' = now
    /\ UNCHANGED <<runtime, m_runtime, now>>
    /\ UNCHANGED <<panelVars, alarm_queue, storeVars, workerVars, closeVars,
                   m_status, is_last_frame, m_reread, histVars>>

\* save_image: if trigger_status == 1
StillActive(status) == status = 1

\* save_image: trigger_status = ast.literal_eval(r.get('trigger_status').decode('utf8'))
MonitorReread ==
    /\ mpc = "reread"
    /\ IF trigger_status = Nil
       THEN /\ mpc' = "crashed"
            /\ UNCHANGED m_reread
       ELSE IF StillActive(LiteralEval(trigger_status))
       THEN /\ mpc' = "write_dev"
            /\ m_reread' = LiteralEval(trigger_status)
       ELSE /\ mpc' = "detect"
            /\ m_reread' = 0
    /\ m_slept' = IF trigger_status # Nil /\ ~StillActive(LiteralEval(trigger_status))
                  THEN 0 ELSE m_slept
    /\ m_curdate' = IF trigger_status # Nil /\ ~StillActive(LiteralEval(trigger_status))
                    THEN 0 ELSE m_curdate
    /\ UNCHANGED <<runtime, m_runtime, now>>
    /\ UNCHANGED <<panelVars, alarm_queue, storeVars, workerVars, closeVars,
                   m_status, is_last_frame, histVars>>

\* save_image: r.set('trigger_dev', dev)
MonitorWriteDev ==
    /\ mpc = "write_dev"
    /\ trigger_dev' = Dev
    /\ mpc' = "write_frame"
    /\ w_handled' = FALSE
    /\ stale_record' = (stale_record \/ m_flushed)
    /\ UNCHANGED <<panelVars, alarm_queue, trigger_status, frame, workerVars, closeVars,
                   m_status, is_last_frame, m_reread, hsolo, habort, w_standing, w_sos,
                   m_disarmed, m_flushed>>
    /\ UNCHANGED hkey
    /\ UNCHANGED gateVars
    /\ UNCHANGED hentry

\* save_image: r.set('frame', frame_json)
MonitorWriteFrame ==
    /\ mpc = "write_frame"
    /\ frame' = FrameJson(m_curdate, "jpg")
    /\ m_reread' = 0
    /\ mpc' = "detect"
    /\ m_slept' = 0
    /\ m_curdate' = 0
    /\ UNCHANGED <<runtime, m_runtime, now>>
    /\ stale_record' = (stale_record \/ m_flushed)
    /\ UNCHANGED <<panelVars, alarm_queue, trigger_status, trigger_dev, workerVars,
                   closeVars, m_status, is_last_frame, hsolo, habort, w_standing, w_sos,
                   m_disarmed, m_flushed>>
    /\ UNCHANGED hkey
    /\ UNCHANGED w_handled
    /\ UNCHANGED hentry

\* The wall clock of the monitor's host shows the next second.
ClockTick ==
    /\ now < MaxTime
    /\ now' = now + 1
    /\ UNCHANGED <<panelVars, alarm_queue, storeVars, workerVars, closeVars,
                   mpc, m_status, is_last_frame, m_reread, runtime, m_runtime, m_slept,
                   m_curdate, histVars>>

NextMonitor ==
    \/ MonitorPoll
    \/ MonitorPollGet
    \/ MonitorInfer
    \/ MonitorDetect
    \/ MonitorGate
    \/ MonitorReread
    \/ MonitorWriteDev
    \/ MonitorWriteFrame

(***************************************************************************)
(* The whole system.                                                       *)
(***************************************************************************)
Next ==
    \/ NextPanel \/ NextWorker \/ BackendNewSession \/ NextClose \/ NextMonitor
    \/ ClockTick
    \/ \E h \in Threads : TkRaises(h)

Spec == Init /\ [][Next]_vars


(***************************************************************************)
(* Scenarios: the same actions with an operator who waits for a confirm to *)
(* be handled before the next key, so one handler runs at a time.          *)
(***************************************************************************)
OperatorIdle == \A h \in Threads : hpc[h] = "idle"

IsPrefix(entry, pin) ==
    /\ Len(entry) <= Len(pin)
    /\ \A i \in 1 .. Len(entry) : entry[i] = pin[i]

\* The operator enters any digits, but one confirm at a time.
NextPatientOperator ==
    \/ \E key \in Digits : OperatorIdle /\ PressedDigit(key)
    \/ OperatorIdle /\ PressedDel
    \/ OperatorIdle /\ PressedOk
    \/ \E h \in Threads : HandlerArmDisarm(h)
    \/ \E h \in Threads : HandlerSos(h)
    \/ \E h \in Threads : ChangeScreenState(h)

\* The operator only arms and disarms: the entry is the arm/disarm PIN or a part
\* of it when ok is pressed.
NextArmDisarmOperator ==
    \/ \E key \in Digits :
          /\ OperatorIdle
          /\ IsPrefix(Append(pin_entry, key), OnOffPin)
          /\ PressedDigit(key)
    \/ OperatorIdle /\ PressedOk
    \/ \E h \in Threads : HandlerArmDisarm(h)

\* Worker steps without the SOS branch of run().
NextWorkerNoSos ==
    \/ WorkerWait
    \/ WorkerCheckEmpty
    \/ WorkerGet
    \/ WorkerFinalCheck
    \/ ClientLogin
    \/ ClientEpisode
    \/ ClientSaveFrame

\* The keypad: any digit key at any time, one confirm at a time, and hash
\* verification may raise.
NextKeypad ==
    \/ \E key \in Keys : PressedDigit(key)
    \/ PressedDel
    \/ OperatorIdle /\ PressedOk
    \/ \E h \in Threads : HandlerArmDisarm(h)
    \/ \E h \in Threads : HandlerSos(h)
    \/ \E h \in Threads : ChangeScreenState(h)
    \/ \E h \in Threads : VerifyRaises(h)

SpecKeypad == Init /\ [][NextKeypad]_vars

\* Panel and worker: the command queue between them.
SpecDispatch == Init /\ [][NextPatientOperator \/ NextWorker]_vars

\* Panel and worker, and a backend whose sessions expire.
NextSessions == NextPatientOperator \/ NextWorker \/ BackendNewSession

SpecSessions == Init /\ [][NextSessions]_vars

\* Panel and worker, and the window is closed at some moment.
NextShutdown ==
    NextPatientOperator \/ NextWorker \/ NextClose \/ \E h \in Threads : TkRaises(h)

SpecShutdown == Init /\ [][NextShutdown]_vars

\* The same, with a worker thread and a main thread that keep being scheduled
\* and remote calls that end.
FairShutdown == SpecShutdown /\ WF_vars(NextWorker) /\ WF_vars(NextClose)

\* Panel and worker with a worker thread that keeps being scheduled and remote
\* calls that end.
FairDispatch == SpecDispatch /\ WF_vars(NextWorker)

\* The operator arms the panel once and then leaves it alone.
NextArmOnce ==
    \/ \E key \in Digits :
          /\ OperatorIdle /\ ~alarm_status
          /\ IsPrefix(Append(pin_entry, key), OnOffPin)
          /\ PressedDigit(key)
    \/ OperatorIdle /\ ~alarm_status /\ pin_entry = OnOffPin /\ PressedOk
    \/ \E h \in Threads :
          \/ VerifyOnOff(h)
          \/ CheckStatus(h)
          \/ CheckCounter(h)
          \/ CooldownClear(h)
          \/ CooldownLoad(h)
          \/ CooldownIncr(h)
          \/ CooldownTick(h)
          \/ CooldownCheck(h)
          \/ CooldownResetStop(h)
          \/ CooldownResetCounter(h)
          \/ CooldownStore(h)
          \/ CooldownBranch(h)
          \/ StartFlush(h)
          \/ StartPut(h)
          \/ StartScreen(h)
          \/ StartStatus(h)
          \/ SetActive(h)
          \/ ResetEntry(h)

\* Worker steps with a backend that answers every login with a session and
\* every episode with 200/201, no SOS.
NextWorkerBackendOk ==
    \/ WorkerWait
    \/ WorkerCheckEmpty
    \/ WorkerGet
    \/ WorkerFinalCheck
    \/ ClientLogin /\ w_login' = "ok"
    \/ ClientEpisode /\ w_episode' = "ok"
    \/ ClientSaveFrame

\* Panel armed once, worker with a succeeding backend, monitor, wall clock.
NextWatch == NextArmOnce \/ NextWorkerBackendOk \/ NextMonitor \/ ClockTick

SpecWatch == Init /\ [][NextWatch]_vars

\* The same, with a worker thread and a monitor process that keep being
\* scheduled and remote calls that end.
FairWatch == SpecWatch /\ WF_vars(NextWorkerBackendOk) /\ WF_vars(NextMonitor)

\* No handler is in the middle of its work: each is not running, has just been
\* started (threading.Thread.start, compare_pin at its first line), or sleeps in
\* do_cooldown's loop (time.sleep(1)).
HandlersWaiting == \A h \in Threads : hpc[h] \in {"idle", "verify_on_off", "cd_tick"}

\* The operator arms and disarms and does not wait for a confirm to be handled:
\* the arm/disarm PIN is entered and confirmed again while earlier handlers
\* have not started running or sleep in their countdown.
NextHastyOperator ==
    \/ \E key \in Digits :
          /\ HandlersWaiting
          /\ IsPrefix(Append(pin_entry, key), OnOffPin)
          /\ PressedDigit(key)
    \/ HandlersWaiting /\ pin_entry = OnOffPin /\ PressedOk
    \/ \E h \in Threads : HandlerArmDisarm(h)
    \/ \E h \in Threads : HandlerAbort(h)

\* Worker ticks with no detection in the store and no SOS: run() dequeues and
\* check_alarm_queue finds nothing to submit.
NextWorkerTicks ==
    \/ WorkerWait
    \/ WorkerCheckEmpty
    \/ WorkerGet
    \/ WorkerFinalCheck

\* Panel with an operator who does not wait, and the worker, whose steps (a
\* tick a second) fall where the handlers wait.
NextArmState == NextHastyOperator \/ (HandlersWaiting /\ NextWorkerTicks)

SpecArmState == Init /\ [][NextArmState]_vars

\* Panel, worker and monitor with an operator who arms and disarms.
SpecGuard == Init /\ [][NextArmDisarmOperator \/ NextWorkerNoSos \/ NextMonitor]_vars

(***************************************************************************)
(* Claims about the control state machine, checked under SpecPanel.        *)
(***************************************************************************)
\* Handlers whose countdown loop (do_cooldown's for loop) is running.
CountingDown == {h \in Threads : hpc[h] = "cd_tick"}

\* C1: in every reachable state at most one cooldown countdown is in progress.
C1_AtMostOneCooldown == Cardinality(CountingDown) <= 1

\* C2: the arming step (start_redis_script, which begins with the flush) never
\* executes while the panel is already Armed: no arming follows another one
\* without a disarm between them.
C2_NoArmingWhileArmed ==
    [][\A h \in Threads :
          (hpc[h] = "start_flush" /\ hpc'[h] = "start_put") => ~alarm_status]_vars

\* C3: a confirm accepted for a countdown while Disarmed with no cooldown running,
\* and not followed by an abort re-confirm, resolves to Armed after its T ticks:
\* do_cooldown returns True (the arming step, which writes status 1 and enqueues
\* Standard once, follows) and no arming step of it precedes the T-th tick.
C3_UnabortedCountdownArms ==
    \A h \in Threads :
        (hsolo[h] /\ ~habort[h]) =>
            /\ hpc[h] = "cd_reset_stop" => (hi[h] = Ticks /\ hret[h])
            /\ hpc[h] = "cd_tick" => hi[h] <= Ticks

\* C4: a countdown during which the abort re-confirm raised the abort flag still
\* runs its T ticks and then resolves without arming: its handler never reaches
\* the arming step (flush, Standard enqueue, status 1 write).
C4_AbortedCountdownNeverArms ==
    \A h \in Threads :
        habort[h] =>
            /\ hpc[h] \notin StartPcs
            /\ hpc[h] = "cd_reset_stop" => hi[h] = Ticks

\* The steps of handler h.
Moves(h) == hpc'[h] # hpc[h] \/ hi'[h] # hi[h]

ArmStateUnchanged ==
    UNCHANGED <<trigger_status, trigger_dev, frame, alarm_status, cooldown,
                cooldown_counter, stop_cooldown>>

\* C6: a confirm that matches the SOS hash (and not the arm/disarm hash) enqueues
\* exactly one SOS command and leaves the store, alarm_status, the cooldown counter
\* and the abort flag as they are, whatever the panel state: from the match on, its
\* handler enqueues "sos" in one step, changes nothing else but its own position,
\* and then only clears the entry.
C6_SosLeavesArmState ==
    [][\A h \in Threads :
          /\ (hpc[h] = "verify_silent" /\ Moves(h)) =>
                /\ hpc'[h] = IF Verify(pin_entry, SilentPin) THEN "sos_put" ELSE "verify_resize"
                /\ ArmStateUnchanged /\ UNCHANGED alarm_queue
          /\ (hpc[h] = "sos_put" /\ Moves(h)) =>
                /\ hpc'[h] = "sos_shown"
                /\ alarm_queue' = Append(alarm_queue, "sos")
                /\ ArmStateUnchanged
          /\ (hpc[h] = "sos_shown" /\ Moves(h)) =>
                /\ hpc'[h] = "reset"
                /\ ArmStateUnchanged /\ UNCHANGED alarm_queue
          /\ (hpc[h] = "reset" /\ Moves(h)) =>
                /\ hpc'[h] = "idle"
                /\ ArmStateUnchanged /\ UNCHANGED alarm_queue]_vars

\* C6, its case: a handler matched the SOS hash and enqueued an SOS while another
\* handler counts down (CooldownPending).
C6_Witness ==
    \E h \in Threads :
        /\ hpc[h] = "sos_shown"
        /\ alarm_queue # <<>> /\ alarm_queue[Len(alarm_queue)] = "sos"
        /\ \E g \in Threads : hpc[g] = "cd_tick" /\ hi[g] > 0

\* C7: a confirm that matches the arm/disarm hash while the panel is Armed
\* enqueues exactly one None command (""), writes status 0, flushes nothing and
\* starts no countdown, and leaves the panel Disarmed: its handler goes from the
\* status test through put "", status 0 and alarm_status = False to the reset.
C7_DisarmWhenArmed ==
    [][\A h \in Threads :
          /\ (hpc[h] = "check_status" /\ Moves(h) /\ alarm_status) =>
                /\ hpc'[h] = "stop_put"
                /\ UNCHANGED <<alarm_queue, trigger_status, trigger_dev, frame>>
          /\ (hpc[h] = "stop_put" /\ Moves(h)) =>
                /\ hpc'[h] = "stop_status"
                /\ alarm_queue' = Append(alarm_queue, "")
                /\ UNCHANGED <<trigger_status, trigger_dev, frame, cooldown_counter>>
          /\ (hpc[h] = "stop_status" /\ Moves(h)) =>
                /\ hpc'[h] = "set_inactive"
                /\ trigger_status' = "0"
                /\ UNCHANGED <<alarm_queue, trigger_dev, frame, cooldown_counter>>
          /\ (hpc[h] = "set_inactive" /\ Moves(h)) =>
                /\ hpc'[h] = "reset"
                /\ alarm_status' = FALSE
                /\ UNCHANGED <<alarm_queue, trigger_status, trigger_dev, frame,
                               cooldown_counter>>
          /\ (hpc[h] = "reset" /\ Moves(h)) =>
                /\ hpc'[h] = "idle"
                /\ UNCHANGED <<alarm_queue, trigger_status, trigger_dev, frame,
                               cooldown_counter, alarm_status>>]_vars

\* C7, its case: a handler that found the panel Armed has enqueued "" and written
\* status 0 over the status 1 of the arming.
C7_Witness ==
    \E h \in Threads :
        /\ hpc[h] = "set_inactive"
        /\ alarm_status
        /\ trigger_status = "0"
        /\ alarm_queue = <<"alarm", "">>

(***************************************************************************)
(* Claims about the dispatch worker, checked under SpecDispatch.           *)
(***************************************************************************)
\* Positions of run() between two ticks and at the top of a tick.
TickBoundary == {"wait", "check_empty", "get", "stopped"}
\* The tick's final evaluation (the last check_alarm_queue of the loop body), the
\* submission it may start, and the wait that follows it.
FinalEvaluation ==
    \/ wpc \in {"final", "wait"}
    \/ wpc \in ClientPcs /\ wresume = "wait"

\* C5: when the worker dequeues an SOS while its standing command is c, in
\* {None, Standard}, it forwards the SOS to the remote alarm client
\* (activate_alarm("sos")) and the standing command is c again when the tick's
\* final evaluation runs and when the next tick begins; at a tick boundary the
\* standing command is never SOS.
C5_SosRestoresStanding ==
    /\ wpc \in TickBoundary => thread_alarm_status \in {"", "alarm"}
    /\ w_sos = "got" => wpc = "sos_check"
    /\ (wpc \in ClientPcs /\ wresume = "sos_restore") => (alarm_type = "sos" /\ w_sos = "sent")
    /\ wpc = "sos_restore" => w_sos = "sent"
    /\ (w_sos # "no" /\ FinalEvaluation) =>
            (w_sos = "sent" /\ thread_alarm_status = w_standing)

\* C5, its case: the tick dequeued and forwarded an SOS while Standard was the
\* standing command, and its final evaluation is about to run.
C5_Witness ==
    /\ wpc = "final"
    /\ w_sos = "sent"
    /\ w_standing = "alarm"
    /\ thread_alarm_status = "alarm"

(***************************************************************************)
(* Claims about the store between panel, monitor and worker, checked under *)
(* SpecGuard.                                                              *)
(***************************************************************************)
\* C8: if the store status becomes Disarmed while the monitor waits in the
\* debounce gate for a detection, that detection is not published: its device
\* identity is not written to the store (the frame is written after it).
C8_DisarmSuppressesPublication == ~(m_disarmed /\ mpc = "write_frame")

\* C9: the worker never starts a Standard alarm submission
\* (activate_alarm("alarm")) while the store status is 0.
C9_NoStandardAlarmWhileDisarmed ==
    [][(wpc # "login" /\ wpc' = "login" /\ alarm_type' = "alarm")
          => trigger_status # "0"]_vars

\* C10: after the flush done at arming, the store holds no device identity or
\* frame of a detection made before that flush.
C10_NoStaleRecordAfterFlush == ~stale_record

(***************************************************************************)
(* Claims about the keypad and the confirm handling, checked under         *)
(* SpecKeypad.                                                             *)
(***************************************************************************)
\* C11: PinEntry never holds more than 4 digits, in particular when compare_pin
\* reads it; a digit key appends the digit, and pressed on a 4-digit entry
\* leaves exactly that digit.
C11_EntryAtMostFour ==
    /\ [](Len(pin_entry) <= MaxPinLen)
    /\ [][(pin_entry' # pin_entry /\ pin_entry' # <<>>) =>
              pin_entry' = IF Len(pin_entry) = MaxPinLen
                           THEN <<hkey'>>
                           ELSE Append(pin_entry, hkey')]_vars

\* C11, its case: compare_pin is about to read a 4-digit entry whose last digit
\* is the key 2.
C11_Witness ==
    /\ Len(pin_entry) = MaxPinLen
    /\ hkey = 2 /\ pin_entry[MaxPinLen] = 2
    /\ \E h \in Threads : hpc[h] = "verify_on_off"

\* C12: every confirm handling ends with PinEntry empty, whatever its outcome,
\* an error raised by the hash verification included: the step with which a
\* handler ends leaves pin_entry empty.
C12_HandlingEndsWithEmptyEntry ==
    [][\A h \in Threads :
          (hpc[h] # "idle" /\ hpc'[h] = "idle") => pin_entry' = <<>>]_vars

\* C13: a hash verification that raises is handled like a no-match: from a
\* verification the handler goes on to the next comparison, to the matched
\* outcome or to the wrong-PIN end (failure indicator, entry cleared), and the
\* step enqueues nothing, writes nothing to the store and leaves alarm_status
\* and the cooldown state as they are.
C13_VerifyErrorIsNoMatch ==
    [][\A h \in Threads :
          (hpc[h] \in VerifyPcs /\ Moves(h)) =>
              /\ hpc'[h] \in {"check_status", "verify_silent", "sos_put",
                               "verify_resize", "resize", "reset"}
              /\ UNCHANGED <<alarm_queue, storeVars, alarm_status, cooldown,
                             cooldown_counter, stop_cooldown>>]_vars

(***************************************************************************)
(* Claims about the remote alarm client, checked under SpecDispatch.       *)
(***************************************************************************)
\* C14: when the episode request returns status 400, the activate_alarm call
\* invokes save_frame zero times and logs zero error-level entries.
C14_ConflictIsQuiet ==
    w_episode = "conflict" =>
        /\ w_saved = 0
        /\ w_errors = 0
        /\ wpc # "save_frame"

\* C14, its case: an SOS submission whose episode request returned 400 is back
\* in run().
C14_Witness ==
    /\ w_episode = "conflict"
    /\ w_login = "ok"
    /\ wpc = "sos_restore"

\* Logins that fail: the request raises, the status is not 200, or the body has
\* no sessionId.
FailedLogins == {"error", "not_200", "no_session"}

\* C15: when session acquisition fails (request error or timeout, status other
\* than 200, no sessionId in the body) the attempt is aborted with an error log:
\* activate_alarm returns to run(), no episode request is sent, no frame is
\* persisted, and the standing command and the store are unchanged.
C15_FailedLoginAborts ==
    /\ [](w_login \in FailedLogins =>
              /\ w_episode = ""
              /\ w_saved = 0
              /\ w_errors > 0
              /\ wpc \notin {"episode", "save_frame", "crashed"})
    /\ [][(wpc = "login" /\ w_login' \in FailedLogins) =>
              /\ wpc' = wresume
              /\ UNCHANGED <<thread_alarm_status, alarm_status_old, storeVars, files,
                             alarm_queue>>]_vars

\* C15, its case: an SOS submission whose login returned a status other than 200
\* is back in run().
C15_Witness ==
    /\ w_login = "not_200"
    /\ w_errors = 3
    /\ wpc = "sos_restore"

\* C16: a failure raised while the episode request is sent (timeout, request
\* exception, any other exception) aborts that submission only: no frame is
\* persisted, activate_alarm returns and the worker loop keeps running.
C16_EpisodeFailureAbortsOnly ==
    w_episode \in {"timeout", "request_error", "other_error"} =>
        /\ w_saved = 0
        /\ wpc \notin {"save_frame", "crashed"}

\* C17: a login response with status 200 and unexpected or missing fields (a
\* body that is not the expected object, no sessionId, no user id) aborts the
\* current submission only: no episode request is sent and the worker loop goes
\* on to its next tick.
C17_BadLoginBodyAbortsOnly ==
    w_login \in {"bad_body", "no_session", "no_user"} =>
        /\ w_episode = ""
        /\ wpc \notin {"episode", "save_frame", "crashed"}

(***************************************************************************)
(* Claims about store reads, checked under SpecGuard.                      *)
(***************************************************************************)
\* C18: a store read that yields no value never ends the presence monitor's
\* loop: after the status poll and after the status re-read that follows the
\* gate wait (also one that falls between the arming flush and the status 1
\* write) the monitor goes on with its next iteration.
C18_StoreReadKeepsLoop == mpc # "crashed"

(***************************************************************************)
(* Claims about closing the window, checked under SpecShutdown.            *)
(***************************************************************************)
\* C19: after the stop signal is set the worker leaves its loop and the join in
\* on_closing returns; an alarm submission in flight when the signal is set runs
\* to completion (its activate_alarm call returns to run()), and the worker
\* starts no submission once the join has returned.
C19_StopCompletesSubmission ==
    /\ w_at_stop => wpc # "crashed"
    /\ cpc = "closed" => wpc \notin ClientPcs

\* The parts of C19 about the signal and the join, under FairShutdown: once the
\* signal is set the worker thread ends and the join returns.
WorkerJoins == stop_event ~> (cpc = "closed" /\ wpc \in {"stopped", "crashed"})

\* The worker leaves its loop at the loop test only, with the signal set.
StopAtLoopTest ==
    [][wpc' = "stopped" => (wpc \in {"wait", "stopped"} /\ stop_event)]_vars

(***************************************************************************)
(* Claims about the command queue, checked under FairDispatch.             *)
(***************************************************************************)
\* The commands the panel enqueues.
Commands == {"", "alarm", "sos"}

\* The worker takes the oldest command off the queue.
Dequeue ==
    /\ alarm_queue # <<>>
    /\ alarm_queue' = Tail(alarm_queue)
    /\ thread_alarm_status' = Head(alarm_queue)
    /\ wpc = "get" /\ wpc' # "get"

C21_GateSleepsRemainder ==
    mpc = "reread" =>
        m_slept = IF QuietWindow > m_runtime THEN QuietWindow - m_runtime ELSE 0

\* C29: the detector is invoked only in an iteration whose last read status is
\* Armed and whose frame-skip counter has reached 5, and the invocation resets
\* the counter to 0; the counter stays within 0..5 and changes otherwise only by
\* one, in an armed iteration without invocation, so at least 5 armed iterations
\* lie between two invocations.
C29_DetectorEveryFifthArmedPoll ==
    /\ [](is_last_frame \in 0 .. FrameSkip)
    /\ [][(mpc # "infer" /\ mpc' = "infer") =>
              /\ mpc \in {"poll", "poll_get"}
              /\ m_status' = 1
              /\ is_last_frame = FrameSkip
              /\ is_last_frame' = 0]_vars
    /\ [][is_last_frame' # is_last_frame =>
              \/ mpc' = "infer"
              \/ /\ is_last_frame' = is_last_frame + 1
                 /\ m_status' = 1
                 /\ mpc \in {"poll", "poll_get"} /\ mpc' = "poll"]_vars

\* C29, its case: the detector is invoked again, after a detection of an earlier
\* invocation was published.
C29_Witness ==
    /\ mpc = "infer"
    /\ is_last_frame = 0
    /\ m_status = 1
    /\ frame # NoFrame

(***************************************************************************)
(* Claims about the trigger record between monitor and worker, checked     *)
(* under SpecGuard.                                                        *)
(***************************************************************************)
\* C22: the worker path clears the trigger record after reading it: once a tick
\* has read the device identity of a published detection and its submission for
\* it has run (the episode was accepted and activate_alarm is over), the store
\* holds no device identity, and no later tick starts a Standard submission for
\* that same detection.
C22_RecordClearedAfterRead ==
    /\ []((w_handled /\ wpc \notin ClientPcs \cup {"crashed"}) => trigger_dev = Nil)
    /\ [][(wpc # "login" /\ wpc' = "login" /\ alarm_type' = "alarm") => ~w_handled]_vars

(***************************************************************************)
(* Claims about the worker's evaluation of the store, checked under        *)
(* FairWatch.                                                              *)
(***************************************************************************)
\* C23: the worker evaluates the standing command against the store on every
\* tick, also when the queue is empty (every tick ends with the evaluation); when
\* the standing command is Standard and the store holds a device identity, the
\* worker, with a backend that succeeds, eventually has acquired a session,
\* submitted the episode and written the published frame to a file named by the
\* frame's timestamp, while no further command is enqueued.
C23_StandingAlarmIsSubmitted ==
    /\ [][(wpc # "wait" /\ wpc' = "wait") =>
              (wpc = "final" \/ (wpc \in ClientPcs /\ wresume = "wait"))]_vars
    /\ [][(wpc = "save_frame" /\ wpc' # "save_frame" /\ frame # NoFrame) =>
              /\ w_file' = {frame.timestamp}
              /\ files' = files \cup {frame.timestamp}]_vars
    /\ [](thread_alarm_status = "alarm" => alarm_queue = <<>>)
    /\ [](thread_alarm_status = "alarm" /\ trigger_dev # Nil =>
              <>(w_login = "ok" /\ w_episode = "ok" /\ w_file # {}))

\* C23, its case: with an empty queue, a tick has submitted the Standard alarm
\* and written the frame stamped with second 1 to the file of that name.
C23_Witness ==
    /\ thread_alarm_status = "alarm"
    /\ alarm_queue = <<>>
    /\ wpc = "wait"
    /\ w_login = "ok" /\ w_episode = "ok"
    /\ frame = FrameJson(1, "jpg")
    /\ w_file = {1}
    /\ 1 \in files

(***************************************************************************)
(* Claims about confirms during a countdown, checked under SpecPanel.      *)
(***************************************************************************)
\* C24: while a cooldown countdown is running no input other than the abort
\* re-confirm is processed: the handler of a confirm that matched the SOS hash,
\* the resize hash or nothing enqueues no command and leaves the screen mode as
\* it is while another handler is counting down.
C24_CountdownBlocksOtherInput ==
    [][\A h \in Threads :
          (/\ hpc[h] \in {"verify_silent", "sos_put", "sos_shown", "verify_resize", "resize"}
           /\ Moves(h)
           /\ \E g \in Threads \ {h} : hpc[g] = "cd_tick" /\ hpc'[g] = "cd_tick")
          => UNCHANGED <<alarm_queue, full_screen_state>>]_vars

(***************************************************************************)
(* Claims about the flush of the store, checked under SpecPanel.           *)
(***************************************************************************)
\* Handler h executes the flush of start_redis_script.
Flushes(h) == hpc[h] = "start_flush" /\ hpc'[h] = "start_put"

\* C25: flush-all is executed exactly once per transition into Armed and at no
\* other time: a key leaves the store only by the flush of an arming, and an
\* arming flushes while the panel is Disarmed and no other arming is under way;
\* within an arming the order is flush, enqueue Standard, write status 1, and
\* the status key is absent from the store between the flush and the status
\* write.
C25_FlushOncePerArming ==
    /\ [][(\/ trigger_status # Nil /\ trigger_status' = Nil
           \/ trigger_dev # Nil /\ trigger_dev' = Nil
           \/ frame # NoFrame /\ frame' = NoFrame)
          => \E h \in Threads : Flushes(h)]_vars
    /\ [][\A h \in Threads :
            Flushes(h) =>
                /\ ~alarm_status
                /\ \A g \in Threads \ {h} : hpc[g] \notin StartPcs]_vars
    /\ [][\A h \in Threads :
            /\ (hpc[h] = "start_put" /\ Moves(h)) =>
                  /\ alarm_queue' = Append(alarm_queue, "alarm")
                  /\ hpc'[h] = "start_screen"
            /\ (hpc[h] = "start_screen" /\ Moves(h)) => hpc'[h] = "start_status"
            /\ (hpc[h] = "start_status" /\ Moves(h)) =>
                  /\ trigger_status' = "1"
                  /\ hpc'[h] = "set_active"]_vars
    /\ [](\A h \in Threads :
            hpc[h] \in {"start_put", "start_screen", "start_status"} =>
                trigger_status = Nil)

(***************************************************************************)
(* Claims about frame persistence, checked under SpecGuard.                *)
(***************************************************************************)
\* C26: save_frame is invoked at most once per activate_alarm call and only
\* after the episode request returned 200 or 201; when the store holds no frame
\* at that point, nothing is persisted, no error-level entry is logged and the
\* call returns to run() as a submitted alarm.
C26_FrameSavedOnSuccessOnly ==
    /\ [](w_saved <= 1)
    /\ []((w_saved > 0 \/ wpc = "save_frame") => (w_login = "ok" /\ w_episode = "ok"))
    /\ [](w_file # {} => w_saved = 1)
    /\ [][(wpc = "save_frame" /\ wpc' # "save_frame" /\ frame = NoFrame) =>
              /\ UNCHANGED <<files, w_file, w_errors, w_episode>>
              /\ w_errors = 0
              /\ wpc' = wresume]_vars

\* C26, its case: a submission accepted by the backend ran save_frame in the
\* window where the device identity is in the store and the frame is not yet,
\* and has written nothing.
C26_Witness ==
    /\ wpc = "wait"
    /\ w_episode = "ok"
    /\ w_saved = 1
    /\ w_file = {} /\ files = {}
    /\ trigger_dev = Dev
    /\ frame = NoFrame
    /\ mpc = "write_frame"

(***************************************************************************)
(* Claims about the order of the comparisons, checked under SpecPanel.     *)
(***************************************************************************)
\* C27: each confirm produces exactly one outcome, chosen by comparing PinEntry
\* against the arm/disarm hash, then the SOS hash, then the resize hash: the
\* handler of a confirmed PinEntry that matches the arm/disarm hash goes to the
\* arm/disarm outcome and to no other comparison, one that matches the SOS hash
\* next goes to the SOS outcome, one that matches the resize hash next toggles
\* the screen mode, and one that matches none goes through the three
\* comparisons to the wrong-PIN end, enqueuing nothing and writing nothing.
C27_FirstMatchDecides ==
    [][\A h \in Threads :
          (hpc[h] \in VerifyPcs /\ Moves(h)) =>
              /\ hpc'[h] \in
                    IF Verify(hentry[h], OnOffPin) THEN {"check_status"}
                    ELSE IF Verify(hentry[h], SilentPin) THEN {"verify_silent", "sos_put"}
                    ELSE IF Verify(hentry[h], ResizePin)
                         THEN {"verify_silent", "verify_resize", "resize"}
                    ELSE {"verify_silent", "verify_resize", "reset"}
              /\ UNCHANGED <<alarm_queue, storeVars, full_screen_state>>]_vars

(***************************************************************************)
(* Claims about the requests of one submission, checked under SpecSessions.*)
(***************************************************************************)
\* C28: each activate_alarm call is a complete, stateless round trip: it begins
\* at a tick's evaluation holding no session id, sends exactly one login request
\* and then at most one episode request, which carries the session id that
\* login returned; no request is sent twice within the call.
C28_OneLoginOneEpisode ==
    /\ [][(wpc # "login" /\ wpc' = "login") =>
              /\ wpc \in {"sos_check", "final"}
              /\ w_login' = "" /\ w_episode' = ""
              /\ w_session' = -1 /\ w_carried' = [sessionId |-> -1]]_vars
    /\ [][(wpc = "login" /\ wpc' # "login") =>
              /\ w_login = "" /\ w_login' # ""
              /\ w_session' = IF w_login' = "ok" THEN issued ELSE -1
              /\ wpc' = "episode" => w_login' = "ok"]_vars
    /\ [][(wpc = "episode" /\ wpc' # "episode") =>
              /\ w_episode = "" /\ w_episode' # ""
              /\ w_carried' = [sessionId |-> w_session]
              /\ w_session \in 1 .. MaxSessions
              /\ wpc' # "login"]_vars
    /\ [](wpc = "login" => (w_login = "" /\ w_episode = ""))
    /\ [](wpc = "episode" => (w_login = "ok" /\ w_episode = ""))
    /\ [](w_episode = "" => w_carried = [sessionId |-> -1])

\* C28, its case: the backend has moved on to its second session id, and the
\* episode request of an SOS submission was accepted with the session id its
\* own login returned.
C28_Witness ==
    /\ issued = 2
    /\ wpc = "save_frame"
    /\ w_login = "ok" /\ w_episode = "ok"
    /\ w_session = 2
    /\ w_carried = [sessionId |-> 2]

(***************************************************************************)
(* Claims about the abort flag, checked under SpecPanel.                   *)
(***************************************************************************)
\* C30: the abort flag (stop_cooldown) is false in every reachable state in
\* which no cooldown countdown is in progress (no handler is inside
\* do_cooldown), whatever the interleaving of an abort re-confirm with the end
\* of the countdown.
C30_AbortFlagOnlyDuringCountdown ==
    stop_cooldown => \E h \in Threads : hpc[h] \in CooldownPcs

(***************************************************************************)
(* Claims about the three views of the arm state, checked under            *)
(* SpecArmState.                                                           *)
(***************************************************************************)
\* The command queue is empty, no confirm handler (and so no countdown) and no
\* shutdown is in progress, and the worker is between two ticks: with the queue
\* empty, the tick that dequeued the last command has ended.
Quiescent ==
    /\ alarm_queue = <<>>
    /\ OperatorIdle
    /\ cpc = "open"
    /\ wpc = "wait"

\* C31: at quiescence the three views of the arm state agree: the panel's
\* alarm_status is True iff the store status is 1 iff the worker's standing
\* command is Standard.
C31_ViewsAgreeAtQuiescence ==
    Quiescent =>
        /\ alarm_status <=> trigger_status = "1"
        /\ alarm_status <=> thread_alarm_status = "alarm"

(***************************************************************************)
(* Claims about closing the window, checked under SpecShutdown.            *)
(***************************************************************************)
\* C32: once on_closing has written status 0, set the stop signal and joined
\* the worker, the store status is 0 and stays 0, and no flush, no Standard
\* enqueue and no status 1 write happens afterwards, also when a confirm
\* handler's countdown was in progress at the moment of closing.
C32_ClosedStaysDisarmed ==
    [][cpc = "closed" =>
          /\ trigger_status = "0"
          /\ trigger_status' = "0"
          /\ \A h \in Threads : ~Flushes(h)
          /\ alarm_queue' # Append(alarm_queue, "alarm")]_vars

=============================================================================
